---------------------------- MODULE Spec2Model ----------------------------
(***************************************************************************)
(* Model of the CCS811 air-quality sensor driver                           *)
(* (Adafruit_CCS811/Adafruit_CCS811.py).                                   *)
(*                                                                         *)
(* The driver object is the state: its three register mirrors, the stored  *)
(* measurements and the temperature offset.  Every public method is one    *)
(* action.  The bytes the device answers on a read are inputs of the       *)
(* action.  `bus' is the list of bus transactions issued by the most       *)
(* recent call, in order; `op', `args' and `ret' record which method was   *)
(* called, with which arguments, and what it returned or raised; `dev'     *)
(* records what the device held ready to answer during that call.          *)
(***************************************************************************)
EXTENDS Integers, Sequences, FiniteSets

VARIABLES
    phase,       \* "new" before __init__, then "ready" or "failed"
    status,      \* self._status    (field name -> value)
    meas_mode,   \* self._meas_mode (field name -> value)
    error_id,    \* self._error_id  (field name -> value)
    TVOC,        \* self._TVOC
    eCO2,        \* self._eCO2
    tempOffset,  \* self.tempOffset
    bus,         \* transactions issued on self._device by the last call
    op,          \* name of the last method called
    args,        \* its arguments
    ret,         \* its outcome: a returned value or a raised exception
    dev,         \* the answers the device had for the reads of the last call
    lastBuf,     \* the ALG_RESULT_DATA payload most recently read off the bus
    lastMeas     \* the byte most recently written to MEAS_MODE on the bus

vars == <<phase, status, meas_mode, error_id, TVOC, eCO2, tempOffset,
          bus, op, args, ret, dev, lastBuf, lastMeas>>

---------------------------------------------------------------------------
(* Register addresses and constants                                        *)

CCS811_STATUS == 0
CCS811_MEAS_MODE == 1
CCS811_ALG_RESULT_DATA == 2
CCS811_ENV_DATA == 5
CCS811_NTC == 6
CCS811_THRESHOLDS == 16
CCS811_HW_ID == 32
CCS811_SW_RESET == 255
CCS811_BOOTLOADER_APP_START == 244

CCS811_DRIVE_MODE_IDLE == 0
CCS811_DRIVE_MODE_1SEC == 1
CCS811_DRIVE_MODE_10SEC == 2
CCS811_DRIVE_MODE_60SEC == 3
CCS811_DRIVE_MODE_250MS == 4

CCS811_HW_ID_CODE == 129
CCS811_REF_RESISTOR == 100000

\* the list tested by "mode not in [...]" in __init__
DriveModes == {CCS811_DRIVE_MODE_IDLE, CCS811_DRIVE_MODE_1SEC,
               CCS811_DRIVE_MODE_10SEC, CCS811_DRIVE_MODE_60SEC,
               CCS811_DRIVE_MODE_250MS}

---------------------------------------------------------------------------
(* Bounds of the model and the input sets                                  *)

\* integers offered as a drive mode range over MinMode..MaxMode
MaxMode == 8
MinMode == 0 - 1

ModeArgs == MinMode..MaxMode

Bytes == 0..255

\* STATUS answers: ERROR is bit 0, DATA_READY bit 3, APP_VALID bit 4 and
\* FW_MODE bit 7; 254 has every bit but ERROR set, the unused ones too
StatusBytes == {0, 1, 128, 129, 153, 254}

\* ALG_RESULT_DATA answers: eCO2 high and low, TVOC high and low, then the
\* four trailing bytes, of which the code reads the second
AlgResults == { <<1, 144, 0, 50, 0, 0, 0, 0>>,
                <<255, 255, 255, 255, 255, 255, 255, 255>>,
                <<144, 1, 50, 0, 7, 16, 8, 9>>,
                <<1, 2, 3, 4, 5, 6, 7, 8>> }

---------------------------------------------------------------------------
(* Python integer operators                                                *)

RECURSIVE Pow2(_)
Pow2(n) == IF n = 0 THEN 1 ELSE 2 * Pow2(n - 1)

\* x & y for y >= 0 (x in two's complement, as Python's int)
RECURSIVE And(_, _)
And(x, y) ==
    IF y = 0 THEN 0
    ELSE (x % 2) * (y % 2) + 2 * And(x \div 2, y \div 2)

\* x | y for x, y >= 0
RECURSIVE Or(_, _)
Or(x, y) ==
    IF x = 0 THEN y
    ELSE IF y = 0 THEN x
    ELSE (IF x % 2 = 1 \/ y % 2 = 1 THEN 1 ELSE 0) + 2 * Or(x \div 2, y \div 2)

Shl(x, n) == x * Pow2(n)
Shr(x, n) == x \div Pow2(n)

---------------------------------------------------------------------------
(* Adafruit_bitfield: a byte as named fields, least significant first      *)

\* a MEAS_MODE layout without the two unused bits in front
MeasModeLayout_noPad == << <<"INT_THRESH", 1>>, <<"INT_DATARDY", 1>>,
                           <<"DRIVE_MODE", 3>>, <<"unused", 2>> >>

\* a STATUS layout with one unused bit too few before FW_MODE
StatusLayout_short == << <<"ERROR", 1>>, <<"unused", 2>>, <<"DATA_READY", 1>>,
                         <<"APP_VALID", 1>>, <<"unused2", 1>>, <<"FW_MODE", 1>> >>

StatusLayout == << <<"ERROR", 1>>, <<"unused", 2>>, <<"DATA_READY", 1>>,
                   <<"APP_VALID", 1>>, <<"unused2", 2>>, <<"FW_MODE", 1>> >>

MeasModeLayout == << <<"unused", 2>>, <<"INT_THRESH", 1>>,
                     <<"INT_DATARDY", 1>>, <<"DRIVE_MODE", 3>> >>

ErrorIdLayout == << <<"WRITE_REG_INVALID", 1>>, <<"READ_REG_INVALID", 1>>,
                    <<"MEASMODE_INVALID", 1>>, <<"MAX_RESISTANCE", 1>>,
                    <<"HEATER_FAULT", 1>>, <<"HEATER_SUPPLY", 1>> >>

FieldNames(layout) == {layout[i][1] : i \in DOMAIN layout}
FieldIndex(layout, name) == CHOOSE i \in DOMAIN layout : layout[i][1] = name
FieldWidth(layout, name) == layout[FieldIndex(layout, name)][2]

\* bit position of the i-th field: the widths before it, summed
RECURSIVE FieldPos(_, _)
FieldPos(layout, i) ==
    IF i = 1 THEN 0 ELSE FieldPos(layout, i - 1) + layout[i - 1][2]

\* Adafruit_bitfield(layout): every field starts at 0
bf_new(layout) == [n \in FieldNames(layout) |-> 0]

\* bitfield.set(data): split a byte into its fields
bf_set(layout, data) ==
    [n \in FieldNames(layout) |->
        And(Shr(data, FieldPos(layout, FieldIndex(layout, n))),
            Pow2(FieldWidth(layout, n)) - 1)]

\* bitfield.<name> = value: the value is cut to the field's width
bf_setfield(layout, fields, name, value) ==
    [fields EXCEPT ![name] = And(value, Pow2(FieldWidth(layout, name)) - 1)]

\* bitfield.get(): the fields, masked and shifted, or-ed into one byte
RECURSIVE bf_fold(_, _, _)
bf_fold(layout, fields, i) ==
    IF i = 0 THEN 0
    ELSE Or(bf_fold(layout, fields, i - 1),
            Shl(And(fields[layout[i][1]], Pow2(layout[i][2]) - 1),
                FieldPos(layout, i)))

bf_get(layout, fields) == bf_fold(layout, fields, Len(layout))

---------------------------------------------------------------------------
(* Bus transactions and call outcomes                                      *)

\* self._device.readU8(reg) answering v
readU8(reg, v) == [op |-> "readU8", reg |-> reg, data |-> <<v>>]
\* self._device.readList(reg, n) answering buf
readList(reg, buf) == [op |-> "readList", reg |-> reg, data |-> buf]
\* self._device.write8(reg, v)
write8(reg, v) == [op |-> "write8", reg |-> reg, data |-> <<v>>]
\* self._device.writeList(reg, buf)
writeList(reg, buf) == [op |-> "writeList", reg |-> reg, data |-> buf]

IsWrite(t) == t.op \in {"write8", "writeList"}
IsRead(t) == t.op \in {"readU8", "readList"}

\* outcomes of a call
Returns(kind, v) == [kind |-> kind, v |-> v]
ReturnsNone == Returns("None", 0)
ReturnsInt(v) == Returns("int", v)
ReturnsBool(b) == Returns("bool", IF b THEN 1 ELSE 0)
Raises(exc) == Returns(exc, 0)

ValueError == "ValueError"
DeviceIdException == "Exception: Device ID returned is not correct"
DeviceErrorException == "Exception: Device returned an Error"
AppModeException == "Exception: Device did not enter application mode"
TypeError == "TypeError"
ZeroDivisionError == "ZeroDivisionError"

\* Python truth of a returned value, as tested by "if x" and "not x"
Truthy(r) == r.v # 0

\* the test of the example's loop: "if not ccs.readData()" prints the
\* stored eCO2 and TVOC as a measurement
ExampleReports(r) == ~Truthy(r)

NoBuf == <<>>
NoByte == 0 - 1

\* what the device answers to a read of HW_ID, of STATUS, of ALG_RESULT_DATA
\* and of NTC
Answers(hwid, st, buf) ==
    [hw_id |-> hwid, status |-> st, alg |-> buf, ntc |-> NoBuf]
NoAnswers == Answers(NoByte, NoByte, NoBuf)
NtcAnswers(buf) == [NoAnswers EXCEPT !.ntc = buf]

\* Python numbers: an int n, or a float given in steps of 1/512
PyInt(n) == [type |-> "int", x512 |-> 512 * n]
PyFloat(x512) == [type |-> "float", x512 |-> x512]


\* arguments offered to setEnvironmentalData: 50, 50.0 and 48.5 percent;
\* 25, 25.0 and -10.5 degrees
Humidities == {PyInt(50), PyFloat(25600), PyFloat(24832)}
Temperatures == {PyInt(25), PyFloat(12800), PyFloat(0 - 5376)}

\* NTC answers: vref high and low, vrntc high and low.  vref = 0 with and
\* without vrntc = 0, vrntc = 0 alone, vref = 1000 with vrntc = 100 (a
\* thermistor of 10 kOhm), and vref = vrntc = 256 (100 kOhm)
NtcResults == { <<0, 0, 1, 0>>, <<0, 0, 0, 0>>, <<1, 0, 0, 0>>,
                <<3, 232, 0, 100>>, <<1, 0, 1, 0>> }

\* arguments offered to setThresholds: low_med, med_high, hysteresis
ThresholdArgs == { <<1500, 2500, 50>>, <<65535, 2748, 255>>,
                   <<255, 3840, 0>> }

\* values the caller stores in tempOffset, in steps of 1/512 degree
TempOffsets == {512}

---------------------------------------------------------------------------
(* The driver object and its methods as operators on it.  A method takes   *)
(* the object `self', its arguments and the bytes the device answers, and  *)
(* gives the object after the call.                                        *)

Self == [status |-> status, meas_mode |-> meas_mode, error_id |-> error_id,
         TVOC |-> TVOC, eCO2 |-> eCO2, tempOffset |-> tempOffset,
         bus |-> bus]

\* the object at the start of a call: no transaction issued by it yet
Entry == [Self EXCEPT !.bus = <<>>]

Issue(self, t) == [self EXCEPT !.bus = Append(@, t)]

\* setDriveMode that builds the byte from a fresh bitfield
do_setDriveMode_fresh(self, mode) ==
    LET s1 == [self EXCEPT !.meas_mode =
                   bf_setfield(MeasModeLayout, bf_new(MeasModeLayout),
                               "DRIVE_MODE", mode)]
    IN  Issue(s1, write8(CCS811_MEAS_MODE, bf_get(MeasModeLayout, s1.meas_mode)))

\* setDriveMode: set the DRIVE_MODE field, write the whole byte
do_setDriveMode(self, mode) ==
    LET s1 == [self EXCEPT !.meas_mode =
                   bf_setfield(MeasModeLayout, @, "DRIVE_MODE", mode)]
    IN  Issue(s1, write8(CCS811_MEAS_MODE, bf_get(MeasModeLayout, s1.meas_mode)))

\* enableInterrupt that writes the byte before it sets the field
do_enableInterrupt_writeFirst(self) ==
    LET s1 == Issue(self, write8(CCS811_MEAS_MODE,
                                 bf_get(MeasModeLayout, self.meas_mode)))
    IN  [s1 EXCEPT !.meas_mode =
             bf_setfield(MeasModeLayout, @, "INT_DATARDY", 1)]

\* enableInterrupt
do_enableInterrupt(self) ==
    LET s1 == [self EXCEPT !.meas_mode =
                   bf_setfield(MeasModeLayout, @, "INT_DATARDY", 1)]
    IN  Issue(s1, write8(CCS811_MEAS_MODE, bf_get(MeasModeLayout, s1.meas_mode)))

\* disableInterrupt
do_disableInterrupt(self) ==
    LET s1 == [self EXCEPT !.meas_mode =
                   bf_setfield(MeasModeLayout, @, "INT_DATARDY", 0)]
    IN  Issue(s1, write8(CCS811_MEAS_MODE, bf_get(MeasModeLayout, s1.meas_mode)))

\* a STATUS read that leaves the mirror as it was
do_readStatus_keep(self, st) == Issue(self, readU8(CCS811_STATUS, st))

\* the statement shared by available and checkError:
\* self._status.set(self._device.readU8(CCS811_STATUS))
do_readStatus(self, st) ==
    Issue([self EXCEPT !.status = bf_set(StatusLayout, st)],
          readU8(CCS811_STATUS, st))

\* checkError: the object after it, and what it returns
do_checkError(self, st) == do_readStatus(self, st)
ret_checkError(after) == after.status["ERROR"]

\* available: the object after it, and what it returns
do_available(self, st) == do_readStatus(self, st)
ret_available(after) == IF after.status["DATA_READY"] = 0 THEN FALSE ELSE TRUE

\* readData that reads the result block whatever DATA_READY says
do_readData_always(self, st, buf) ==
    LET s1 == do_available(self, st)
    IN  [Issue(s1, readList(CCS811_ALG_RESULT_DATA, buf))
            EXCEPT !.eCO2 = Or(Shl(buf[1], 8), buf[2]),
                   !.TVOC = Or(Shl(buf[3], 8), buf[4])]

\* readData that takes the low byte first
do_readData_swapped(self, st, buf) ==
    LET s1 == do_available(self, st)
    IN  IF ~ret_available(s1)
        THEN s1
        ELSE [Issue(s1, readList(CCS811_ALG_RESULT_DATA, buf))
                 EXCEPT !.eCO2 = Or(Shl(buf[2], 8), buf[1]),
                        !.TVOC = Or(Shl(buf[4], 8), buf[3])]

\* readData: st answers the STATUS read, buf the ALG_RESULT_DATA read
do_readData(self, st, buf) ==
    LET s1 == do_available(self, st)
    IN  IF ~ret_available(s1)
        THEN s1
        ELSE [Issue(s1, readList(CCS811_ALG_RESULT_DATA, buf))
                 EXCEPT !.eCO2 = Or(Shl(buf[1], 8), buf[2]),
                        !.TVOC = Or(Shl(buf[3], 8), buf[4])]

\* readData that returns byte 5 without looking at ERROR
ret_readData_noErrorTest(after, buf) ==
    IF ~ret_available(after) THEN ReturnsBool(FALSE)
    ELSE ReturnsInt(buf[6])

ret_readData(after, buf) ==
    IF ~ret_available(after) THEN ReturnsBool(FALSE)
    ELSE IF after.status["ERROR"] # 0 THEN ReturnsInt(buf[6])
    ELSE ReturnsInt(0)

\* math.fmod(*argv): fmod takes exactly two arguments; with two it gives
\* the remainder of x / y carrying the sign of x
math_fmod(argv) ==
    IF Len(argv) # 2 THEN Raises(TypeError)
    ELSE LET x == argv[1].x512
             y == argv[2].x512
             a == IF x < 0 THEN 0 - x ELSE x
             b == IF y < 0 THEN 0 - y ELSE y
         IN  Returns("float", IF x < 0 THEN 0 - (a % b) ELSE a % b)

\* setEnvironmentalData: "humidity << 1" is defined for an int only, and
\* the call math.fmod(temperature) that follows it passes one argument;
\* the statement that would index its result, and the write of the buffer
\* after it, are reached by no call
ret_setEnvironmentalData(humidity, temperature) ==
    IF humidity.type # "int" THEN Raises(TypeError)
    ELSE IF math_fmod(<<temperature>>).kind = TypeError THEN Raises(TypeError)
    ELSE Raises(TypeError)

do_setEnvironmentalData(self, humidity, temperature) == self

\* the Beta equation of calculateTemperature for the resistances the NTC
\* answers give, in steps of 1/512 degree (rounded):
\*   1 / (log(rntc / 10000) / 3380 + 1 / 298.15) - 273.15
\* is 25.0 for rntc = 10000 and -25.334 for rntc = 100000
BetaTemp512(vrntc, vref) ==
    CASE vrntc * CCS811_REF_RESISTOR = 10000 * vref -> 12800
      [] vrntc * CCS811_REF_RESISTOR = 100000 * vref -> 0 - 12971

\* calculateTemperature: buf answers the NTC read.  The float division by
\* vref = 0 raises ZeroDivisionError, math.log(0.0) raises ValueError
do_calculateTemperature(self, buf) == Issue(self, readList(CCS811_NTC, buf))

\* calculateTemperature that answers 0.0 when vref is 0
ret_calculateTemperature_zero(self, buf) ==
    LET vref == Or(Shl(buf[1], 8), buf[2])
        vrntc == Or(Shl(buf[3], 8), buf[4])
    IN  IF vref = 0 THEN Returns("float", 0)
        ELSE IF vrntc = 0 THEN Raises(ValueError)
        ELSE Returns("float", BetaTemp512(vrntc, vref) - self.tempOffset)

ret_calculateTemperature(self, buf) ==
    LET vref == Or(Shl(buf[1], 8), buf[2])
        vrntc == Or(Shl(buf[3], 8), buf[4])
    IN  IF vref = 0 THEN Raises(ZeroDivisionError)
        ELSE IF vrntc = 0 THEN Raises(ValueError)
        ELSE Returns("float", BetaTemp512(vrntc, vref) - self.tempOffset)

\* setThresholds that keeps all 8 bits of the high bytes
do_setThresholds_wideHigh(self, low_med, med_high, hysteresis) ==
    Issue(self, writeList(CCS811_THRESHOLDS,
                          <<And(Shr(low_med, 8), 255), And(low_med, 15),
                            And(Shr(med_high, 8), 255), And(med_high, 15),
                            hysteresis>>))

\* setThresholds
do_setThresholds(self, low_med, med_high, hysteresis) ==
    Issue(self, writeList(CCS811_THRESHOLDS,
                          <<And(Shr(low_med, 8), 15), And(low_med, 15),
                            And(Shr(med_high, 8), 15), And(med_high, 15),
                            hysteresis>>))

\* SWReset that also clears the measurement-mode mirror
do_SWReset_clears(self) ==
    Issue([self EXCEPT !.meas_mode = bf_new(MeasModeLayout)],
          writeList(CCS811_SW_RESET, <<17, 229, 114, 138>>))

\* SWReset
do_SWReset(self) ==
    Issue(self, writeList(CCS811_SW_RESET, <<17, 229, 114, 138>>))

\* ccs.tempOffset = value, the assignment a caller makes
do_setTempOffset(self, value) == [self EXCEPT !.tempOffset = value]

\* __init__ that opens the device and reads HW_ID before it looks at mode
do_init_probeFirst(self, mode, hwid, st) ==
    LET s1 == Issue(self, readU8(CCS811_HW_ID, hwid))
    IN  IF mode \notin DriveModes THEN s1
        ELSE IF hwid # CCS811_HW_ID_CODE THEN s1
        ELSE LET s2 == Issue(s1, writeList(CCS811_BOOTLOADER_APP_START, <<>>))
                 s3 == do_checkError(s2, st)
             IN  IF ret_checkError(s3) # 0 THEN s3
                 ELSE IF s3.status["FW_MODE"] = 0 THEN s3
                 ELSE do_setDriveMode(do_disableInterrupt(s3),
                                      CCS811_DRIVE_MODE_1SEC)

\* __init__ that starts the application before it compares the HW_ID
do_init_startFirst(self, mode, hwid, st) ==
    IF mode \notin DriveModes THEN self
    ELSE LET s1 == Issue(self, readU8(CCS811_HW_ID, hwid))
             s2 == Issue(s1, writeList(CCS811_BOOTLOADER_APP_START, <<>>))
         IN  IF hwid # CCS811_HW_ID_CODE THEN s2
             ELSE LET s3 == do_checkError(s2, st)
                  IN  IF ret_checkError(s3) # 0 THEN s3
                      ELSE IF s3.status["FW_MODE"] = 0 THEN s3
                      ELSE do_setDriveMode(do_disableInterrupt(s3),
                                           CCS811_DRIVE_MODE_1SEC)

\* __init__ that configures the device before it tests FW_MODE
do_init_lateFwTest(self, mode, hwid, st) ==
    IF mode \notin DriveModes THEN self
    ELSE LET s1 == Issue(self, readU8(CCS811_HW_ID, hwid))
         IN  IF hwid # CCS811_HW_ID_CODE THEN s1
             ELSE LET s2 == Issue(s1, writeList(CCS811_BOOTLOADER_APP_START, <<>>))
                      s3 == do_checkError(s2, st)
                  IN  IF ret_checkError(s3) # 0 THEN s3
                      ELSE do_setDriveMode(do_disableInterrupt(s3),
                                           CCS811_DRIVE_MODE_1SEC)

\* __init__ that reads STATUS before it starts the application
do_init_statusFirst(self, mode, hwid, st) ==
    IF mode \notin DriveModes THEN self
    ELSE LET s1 == Issue(self, readU8(CCS811_HW_ID, hwid))
         IN  IF hwid # CCS811_HW_ID_CODE THEN s1
             ELSE LET s2 == do_checkError(s1, st)
                      s3 == Issue(s2, writeList(CCS811_BOOTLOADER_APP_START, <<>>))
                  IN  IF ret_checkError(s3) # 0 THEN s3
                      ELSE IF s3.status["FW_MODE"] = 0 THEN s3
                      ELSE do_setDriveMode(do_disableInterrupt(s3),
                                           CCS811_DRIVE_MODE_1SEC)

\* __init__: the object after the constructor ran or raised
do_init(self, mode, hwid, st) ==
    IF mode \notin DriveModes THEN self
    ELSE LET s1 == Issue(self, readU8(CCS811_HW_ID, hwid))
         IN  IF hwid # CCS811_HW_ID_CODE THEN s1
             ELSE LET s2 == Issue(s1, writeList(CCS811_BOOTLOADER_APP_START, <<>>))
                      s3 == do_checkError(s2, st)
                  IN  IF ret_checkError(s3) # 0 THEN s3
                      ELSE IF s3.status["FW_MODE"] = 0 THEN s3
                      ELSE do_setDriveMode(do_disableInterrupt(s3),
                                           CCS811_DRIVE_MODE_1SEC)

ret_init(mode, hwid, st) ==
    IF mode \notin DriveModes THEN Raises(ValueError)
    ELSE IF hwid # CCS811_HW_ID_CODE THEN Raises(DeviceIdException)
    ELSE IF bf_set(StatusLayout, st)["ERROR"] # 0 THEN Raises(DeviceErrorException)
    ELSE IF bf_set(StatusLayout, st)["FW_MODE"] = 0 THEN Raises(AppModeException)
    ELSE ReturnsNone

---------------------------------------------------------------------------
(* State machine                                                           *)

\* the ALG_RESULT_DATA payloads read in a list of transactions
AlgReads(b) ==
    {b[i].data : i \in {j \in DOMAIN b : /\ b[j].op = "readList"
                                         /\ b[j].reg = CCS811_ALG_RESULT_DATA}}

\* the positions of the writes to MEAS_MODE in a list of transactions
MeasWrites(b) ==
    {i \in DOMAIN b : b[i].op = "write8" /\ b[i].reg = CCS811_MEAS_MODE}

\* the variables after a call of method `name' with arguments `a', during
\* which the device answered `d', that left the object `after' and had the
\* outcome `r'
Call(name, a, d, after, r) ==
    \E s \in {after} :
        /\ status' = s.status
        /\ meas_mode' = s.meas_mode
        /\ error_id' = s.error_id
        /\ TVOC' = s.TVOC
        /\ eCO2' = s.eCO2
        /\ tempOffset' = s.tempOffset
        /\ bus' = s.bus
        /\ lastBuf' = IF AlgReads(s.bus) = {} THEN lastBuf
                      ELSE CHOOSE b \in AlgReads(s.bus) : TRUE
        /\ lastMeas' = IF MeasWrites(s.bus) = {} THEN lastMeas
                       ELSE s.bus[CHOOSE i \in MeasWrites(s.bus) :
                                     \A j \in MeasWrites(s.bus) : j <= i].data[1]
        /\ op' = name
        /\ args' = a
        /\ dev' = d
        /\ ret' = r

Init ==
    /\ phase = "new"
    /\ status = bf_new(StatusLayout)
    /\ meas_mode = bf_new(MeasModeLayout)
    /\ error_id = bf_new(ErrorIdLayout)
    /\ TVOC = 0
    /\ eCO2 = 0
    /\ tempOffset = 0
    /\ bus = <<>>
    /\ op = "none"
    /\ args = <<>>
    /\ ret = ReturnsNone
    /\ dev = NoAnswers
    /\ lastBuf = NoBuf
    /\ lastMeas = NoByte

__init__(mode, hwid, st) ==
    /\ phase = "new"
    /\ Call("__init__", <<mode>>, Answers(hwid, st, NoBuf), do_init(Entry, mode, hwid, st),
            ret_init(mode, hwid, st))
    /\ phase' = IF ret_init(mode, hwid, st) = ReturnsNone THEN "ready" ELSE "failed"

setDriveMode(mode) ==
    /\ phase = "ready"
    /\ Call("setDriveMode", <<mode>>, NoAnswers, do_setDriveMode(Entry, mode), ReturnsNone)
    /\ UNCHANGED phase

enableInterrupt ==
    /\ phase = "ready"
    /\ Call("enableInterrupt", <<>>, NoAnswers, do_enableInterrupt(Entry), ReturnsNone)
    /\ UNCHANGED phase

disableInterrupt ==
    /\ phase = "ready"
    /\ Call("disableInterrupt", <<>>, NoAnswers, do_disableInterrupt(Entry), ReturnsNone)
    /\ UNCHANGED phase

available(st) ==
    /\ phase = "ready"
    /\ \E after \in {do_available(Entry, st)} :
           Call("available", <<>>, Answers(NoByte, st, NoBuf), after,
                ReturnsBool(ret_available(after)))
    /\ UNCHANGED phase

checkError(st) ==
    /\ phase = "ready"
    /\ \E after \in {do_checkError(Entry, st)} :
           Call("checkError", <<>>, Answers(NoByte, st, NoBuf), after,
                ReturnsInt(ret_checkError(after)))
    /\ UNCHANGED phase

readData(st, buf) ==
    /\ phase = "ready"
    /\ \E after \in {do_readData(Entry, st, buf)} :
           Call("readData", <<>>, Answers(NoByte, st, buf), after,
                ret_readData(after, buf))
    /\ UNCHANGED phase

setEnvironmentalData(humidity, temperature) ==
    /\ phase = "ready"
    /\ Call("setEnvironmentalData", <<humidity, temperature>>, NoAnswers,
            do_setEnvironmentalData(Entry, humidity, temperature),
            ret_setEnvironmentalData(humidity, temperature))
    /\ UNCHANGED phase

calculateTemperature(buf) ==
    /\ phase = "ready"
    /\ Call("calculateTemperature", <<>>, NtcAnswers(buf),
            do_calculateTemperature(Entry, buf),
            ret_calculateTemperature(Entry, buf))
    /\ UNCHANGED phase

setThresholds(low_med, med_high, hysteresis) ==
    /\ phase = "ready"
    /\ Call("setThresholds", <<low_med, med_high, hysteresis>>, NoAnswers,
            do_setThresholds(Entry, low_med, med_high, hysteresis), ReturnsNone)
    /\ UNCHANGED phase

SWReset ==
    /\ phase = "ready"
    /\ Call("SWReset", <<>>, NoAnswers, do_SWReset(Entry), ReturnsNone)
    /\ UNCHANGED phase

setTempOffset(value) ==
    /\ phase = "ready"
    /\ Call("tempOffset", <<value>>, NoAnswers, do_setTempOffset(Entry, value),
            ReturnsNone)
    /\ UNCHANGED phase

getTVOC ==
    /\ phase = "ready"
    /\ Call("getTVOC", <<>>, NoAnswers, Entry, ReturnsInt(TVOC))
    /\ UNCHANGED phase

geteCO2 ==
    /\ phase = "ready"
    /\ Call("geteCO2", <<>>, NoAnswers, Entry, ReturnsInt(eCO2))
    /\ UNCHANGED phase

Next ==
    \/ /\ phase = "new"
       /\ \E mode \in ModeArgs, hwid \in Bytes, st \in StatusBytes :
              __init__(mode, hwid, st)
    \/ \E mode \in ModeArgs : setDriveMode(mode)
    \/ enableInterrupt
    \/ disableInterrupt
    \/ \E st \in StatusBytes : available(st)
    \/ \E st \in StatusBytes : checkError(st)
    \/ \E st \in StatusBytes, buf \in AlgResults : readData(st, buf)
    \/ \E humidity \in Humidities, temperature \in Temperatures :
           setEnvironmentalData(humidity, temperature)
    \/ \E buf \in NtcResults : calculateTemperature(buf)
    \/ \E t \in ThresholdArgs : setThresholds(t[1], t[2], t[3])
    \/ SWReset
    \/ \E value \in TempOffsets : setTempOffset(value)
    \/ getTVOC
    \/ geteCO2

Spec == Init /\ [][Next]_vars

---------------------------------------------------------------------------
(* The three bitfields by themselves: a register and a byte are drawn, the *)
(* byte is loaded into the bitfield of that register with set(), and       *)
(* fields are then assigned one at a time; `ret' holds what get() gives    *)
(* after each step.                                                        *)

Registers == {"status", "meas_mode", "error_id"}

LayoutOf(reg) ==
    CASE reg = "status" -> StatusLayout
      [] reg = "meas_mode" -> MeasModeLayout
      [] reg = "error_id" -> ErrorIdLayout

Mirror(reg) ==
    CASE reg = "status" -> status
      [] reg = "meas_mode" -> meas_mode
      [] reg = "error_id" -> error_id

\* integers assigned to a field: in and out of every field's width
FieldValues == {0 - 1, 0, 2, 5}

\* the variables after the bitfield of register reg became m
Stored(reg, m) ==
    /\ status' = IF reg = "status" THEN m ELSE status
    /\ meas_mode' = IF reg = "meas_mode" THEN m ELSE meas_mode
    /\ error_id' = IF reg = "error_id" THEN m ELSE error_id
    /\ ret' = ReturnsInt(bf_get(LayoutOf(reg), m))
    /\ UNCHANGED <<phase, TVOC, eCO2, tempOffset, bus, dev, lastBuf, lastMeas>>

CodecInit ==
    /\ phase = "codec"
    /\ status = bf_new(StatusLayout)
    /\ meas_mode = bf_new(MeasModeLayout)
    /\ error_id = bf_new(ErrorIdLayout)
    /\ TVOC = 0
    /\ eCO2 = 0
    /\ tempOffset = 0
    /\ bus = <<>>
    /\ op = "none"
    /\ args \in {<<reg, data>> : reg \in Registers, data \in Bytes}
    /\ ret = ReturnsInt(0)
    /\ dev = NoAnswers
    /\ lastBuf = NoBuf
    /\ lastMeas = NoByte

\* bitfield.set(data) with the byte drawn, then bitfield.get()
bitfield_set ==
    /\ phase = "codec"
    /\ op = "none"
    /\ Stored(args[1], bf_set(LayoutOf(args[1]), args[2]))
    /\ op' = "set"
    /\ args' = args

\* bitfield.<name> = value, then bitfield.get()
bitfield_assign(name, value) ==
    /\ phase = "codec"
    /\ name \in FieldNames(LayoutOf(args[1]))
    /\ Stored(args[1], bf_setfield(LayoutOf(args[1]), Mirror(args[1]), name, value))
    /\ op' = "assign"
    /\ args' = <<args[1], name, value>>

CodecNext ==
    \/ bitfield_set
    \/ \E name \in UNION {FieldNames(LayoutOf(reg)) : reg \in Registers},
          value \in FieldValues : bitfield_assign(name, value)

CodecSpec == CodecInit /\ [][CodecNext]_vars

---------------------------------------------------------------------------
(* Properties                                                              *)

\* the bits of a byte on the bus, by their position in the register
ErrorBit(b) == b % 2
DataReadyBit(b) == (b \div 8) % 2
FwModeBit(b) == (b \div 128) % 2
IntDataRdyBits(b) == (b \div 8) % 2
DriveModeBits(b) == (b \div 16) % 8

\* the positions in the transaction list b of the writes to, and the reads
\* of, register reg
WritesTo(b, reg) == {i \in DOMAIN b : IsWrite(b[i]) /\ b[i].reg = reg}
ReadsOf(b, reg) == {i \in DOMAIN b : IsRead(b[i]) /\ b[i].reg = reg}

Constructed == op = "__init__" /\ ret = ReturnsNone

\* C1: a constructor call with a drive mode outside {0,1,2,3,4} raises
\* ValueError and has issued no bus transaction at all.
C1_InvalidModeNoBus ==
    (op = "__init__" /\ args[1] \notin {0, 1, 2, 3, 4})
        => (ret = Raises(ValueError) /\ bus = <<>> /\ phase = "failed")

C1_Witness ==
    op = "__init__" /\ args[1] = 5 /\ ret = Raises(ValueError) /\ dev.hw_id = 129

\* C2: with a valid drive mode and any HW_ID answer other than 0x81 the
\* constructor raises the wrong-device exception and its only bus
\* transaction is the single HW_ID read.
C2_WrongHwId ==
    (op = "__init__" /\ args[1] \in {0, 1, 2, 3, 4} /\ dev.hw_id # 129)
        => /\ ret = Raises(DeviceIdException)
           /\ bus = <<readU8(CCS811_HW_ID, dev.hw_id)>>
           /\ phase = "failed"

C2_Witness ==
    /\ op = "__init__" /\ args[1] = 1 /\ dev.hw_id = 128 /\ dev.status = 128
    /\ ret = Raises(DeviceIdException)

\* C3: when the STATUS byte read by the constructor has ERROR set or
\* FW_MODE clear the constructor raises a device error and writes nothing
\* to MEAS_MODE; a constructor that succeeded read a STATUS byte with
\* ERROR = 0 and FW_MODE = 1.
C3_StatusCheck ==
    /\ (/\ op = "__init__" /\ args[1] \in {0, 1, 2, 3, 4} /\ dev.hw_id = 129
        /\ (ErrorBit(dev.status) = 1 \/ FwModeBit(dev.status) = 0))
          => /\ ret \in {Raises(DeviceErrorException), Raises(AppModeException)}
             /\ ReadsOf(bus, CCS811_STATUS) = {3}
             /\ WritesTo(bus, CCS811_MEAS_MODE) = {}
             /\ phase = "failed"
    /\ Constructed
          => /\ Len(bus) >= 3
             /\ bus[3] = readU8(CCS811_STATUS, dev.status)
             /\ ErrorBit(dev.status) = 0
             /\ FwModeBit(dev.status) = 1

C3_Witness ==
    /\ op = "__init__" /\ dev.hw_id = 129 /\ dev.status = 0
    /\ ret = Raises(AppModeException)
    /\ Len(bus) = 3

\* C4: a successful constructor issues exactly: read HW_ID, zero-length
\* write to APP_START, read STATUS, write MEAS_MODE with INT_DATARDY = 0,
\* write MEAS_MODE with the DRIVE_MODE field the driver holds; and in no
\* constructor call is APP_START written before HW_ID was read as 0x81, or
\* MEAS_MODE written before a STATUS byte with ERROR = 0 and FW_MODE = 1 was
\* read.
C4_InitOrder ==
    /\ Constructed
          => /\ Len(bus) = 5
             /\ bus[1] = readU8(CCS811_HW_ID, 129)
             /\ bus[2] = writeList(CCS811_BOOTLOADER_APP_START, <<>>)
             /\ bus[3] = readU8(CCS811_STATUS, dev.status)
             /\ bus[4].op = "write8" /\ bus[4].reg = CCS811_MEAS_MODE
             /\ IntDataRdyBits(bus[4].data[1]) = 0
             /\ bus[5].op = "write8" /\ bus[5].reg = CCS811_MEAS_MODE
             /\ DriveModeBits(bus[5].data[1]) = meas_mode["DRIVE_MODE"]
    /\ op = "__init__"
          => /\ \A i \in WritesTo(bus, CCS811_BOOTLOADER_APP_START) :
                    \E j \in 1..(i - 1) : bus[j] = readU8(CCS811_HW_ID, 129)
             /\ \A i \in WritesTo(bus, CCS811_MEAS_MODE) :
                    \E j \in 1..(i - 1) :
                        /\ bus[j].op = "readU8" /\ bus[j].reg = CCS811_STATUS
                        /\ ErrorBit(bus[j].data[1]) = 0
                        /\ FwModeBit(bus[j].data[1]) = 1
                        /\ \E k \in 1..(j - 1) :
                               bus[k] = writeList(CCS811_BOOTLOADER_APP_START, <<>>)

C4_Witness ==
    Constructed /\ Len(bus) = 5 /\ dev.status = 254 /\ args[1] = 4

\* C5: after a successful constructor call with drive mode m, the
\* DRIVE_MODE field of the measurement-mode mirror and of the last byte
\* written to MEAS_MODE equals m.
C5_RequestedModeApplied ==
    Constructed
        => /\ meas_mode["DRIVE_MODE"] = args[1]
           /\ WritesTo(bus, CCS811_MEAS_MODE) # {}
           /\ \A i \in WritesTo(bus, CCS811_MEAS_MODE) :
                  (\A j \in WritesTo(bus, CCS811_MEAS_MODE) : j <= i)
                      => DriveModeBits(bus[i].data[1]) = args[1]

\* C6: a readData call whose STATUS read has DATA_READY = 0 returns False,
\* issues the STATUS read and nothing else, and leaves the stored eCO2 and
\* TVOC as they were before the call.
C6_NoDataNoRead ==
    [][(op' = "readData" /\ DataReadyBit(dev'.status) = 0)
          => /\ ret' = ReturnsBool(FALSE)
             /\ bus' = <<readU8(CCS811_STATUS, dev'.status)>>
             /\ eCO2' = eCO2
             /\ TVOC' = TVOC]_vars

C6_Witness ==
    /\ op = "readData" /\ DataReadyBit(dev.status) = 0
    /\ ret = ReturnsBool(FALSE)
    /\ eCO2 = 400 /\ TVOC = 50
    /\ dev.alg = <<255, 255, 255, 255, 255, 255, 255, 255>>

\* C7: a readData call whose STATUS read has DATA_READY = 1 reads the
\* 8-byte payload b whether or not ERROR is set; from then until the next
\* payload is read the stored eCO2 is 256*b[0] + b[1] and the stored TVOC
\* is 256*b[2] + b[3], both in 0..65535, and geteCO2 and getTVOC return
\* these values; the payload 01 90 00 32 00 00 00 00 gives 400 and 50.
C7_Decode ==
    /\ (op = "readData" /\ DataReadyBit(dev.status) = 1)
          => /\ lastBuf = dev.alg
             /\ bus = <<readU8(CCS811_STATUS, dev.status),
                        readList(CCS811_ALG_RESULT_DATA, dev.alg)>>
    /\ lastBuf # NoBuf
          => /\ eCO2 = 256 * lastBuf[1] + lastBuf[2]
             /\ TVOC = 256 * lastBuf[3] + lastBuf[4]
             /\ eCO2 \in 0..65535 /\ TVOC \in 0..65535
             /\ op = "geteCO2" => ret = ReturnsInt(256 * lastBuf[1] + lastBuf[2])
             /\ op = "getTVOC" => ret = ReturnsInt(256 * lastBuf[3] + lastBuf[4])
    /\ lastBuf = <<1, 144, 0, 50, 0, 0, 0, 0>> => (eCO2 = 400 /\ TVOC = 50)
    /\ lastBuf = NoBuf => (eCO2 = 0 /\ TVOC = 0)

C7_Witness ==
    /\ op = "geteCO2" /\ ret = ReturnsInt(400) /\ TVOC = 50
    /\ lastBuf = <<1, 144, 0, 50, 0, 0, 0, 0>>
    /\ ErrorBit(bf_get(StatusLayout, status)) = 1

\* C8: a readData call that reads data returns 0 when the ERROR bit of the
\* STATUS byte read in that call is clear and byte 5 of the payload when it
\* is set.
C8_ReturnValue ==
    (op = "readData" /\ DataReadyBit(dev.status) = 1)
        => /\ ErrorBit(dev.status) = 0 => ret = ReturnsInt(0)
           /\ ErrorBit(dev.status) = 1 => ret = ReturnsInt(dev.alg[6])

C8_Witness ==
    /\ op = "readData" /\ dev.status = 153
    /\ dev.alg = <<144, 1, 50, 0, 7, 16, 8, 9>>
    /\ ret = ReturnsInt(16)

\* C9: in every state after a successful construction the DRIVE_MODE field
\* of the measurement-mode mirror, and of every byte written to MEAS_MODE,
\* is one of 0, 1, 2, 3, 4.
C9_DriveModeEnumerant ==
    phase = "ready"
        => /\ meas_mode["DRIVE_MODE"] \in {0, 1, 2, 3, 4}
           /\ \A i \in WritesTo(bus, CCS811_MEAS_MODE) :
                  DriveModeBits(bus[i].data[1]) \in {0, 1, 2, 3, 4}

\* the buffer the documented encoding gives for humidity h and temperature
\* t: 2*h, 0, then the high and low byte of
\* ((trunc(t) + 25) << 9) | ((512 * (t - trunc(t))) & 0x1FF)
EnvTrunc(t) ==
    IF t.x512 >= 0 THEN t.x512 \div 512 ELSE 0 - ((0 - t.x512) \div 512)
EnvTemp(t) ==
    (EnvTrunc(t) + 25) * 512 + ((t.x512 - 512 * EnvTrunc(t)) % 512)
EnvBuffer(h, t) ==
    <<h.x512 \div 256, 0, (EnvTemp(t) \div 256) % 256, EnvTemp(t) % 256>>

\* C10: setEnvironmentalData(h, t) completes without error and issues
\* exactly one write to ENV_DATA, of the four bytes of the documented
\* encoding; for (50.0, 25.0) these are 64 00 64 00 (hex).
C10_EnvDataWritten ==
    op = "setEnvironmentalData"
        => /\ ret = ReturnsNone
           /\ bus = <<writeList(CCS811_ENV_DATA, EnvBuffer(args[1], args[2]))>>
           /\ (args = <<PyFloat(25600), PyFloat(12800)>>
                 => bus[1].data = <<100, 0, 100, 0>>)

\* C11: a calculateTemperature call whose NTC answer has vref = 0 (bytes 0
\* and 1 both zero) ends in an error, ZeroDivisionError, and returns no
\* value; the temperature offset, eCO2, TVOC and both register mirrors are
\* as they were before the call.
C11_VrefZero ==
    [][(op' = "calculateTemperature" /\ dev'.ntc[1] = 0 /\ dev'.ntc[2] = 0)
          => /\ ret' = Raises(ZeroDivisionError)
             /\ ret'.kind \notin {"float", "int", "bool", "None"}
             /\ bus' = <<readList(CCS811_NTC, dev'.ntc)>>
             /\ tempOffset' = tempOffset
             /\ eCO2' = eCO2
             /\ TVOC' = TVOC
             /\ status' = status
             /\ meas_mode' = meas_mode]_vars

C11_Witness ==
    /\ op = "calculateTemperature" /\ dev.ntc = <<0, 0, 0, 0>>
    /\ ret = Raises(ZeroDivisionError)
    /\ tempOffset = 512 /\ eCO2 = 400 /\ meas_mode["INT_DATARDY"] = 1

\* C12: setThresholds(low_med, med_high, hysteresis) issues exactly one
\* write, to THRESHOLDS, of exactly 5 bytes, of which byte 0 is
\* (low_med >> 8) & 0xF, byte 2 is (med_high >> 8) & 0xF and byte 4 is
\* hysteresis.
C12_ThresholdBuffer ==
    op = "setThresholds"
        => /\ ret = ReturnsNone
           /\ Len(bus) = 1
           /\ bus[1].op = "writeList" /\ bus[1].reg = CCS811_THRESHOLDS
           /\ Len(bus[1].data) = 5
           /\ bus[1].data[1] = (args[1] \div 256) % 16
           /\ bus[1].data[3] = (args[2] \div 256) % 16
           /\ bus[1].data[5] = args[3]

C12_Witness ==
    /\ op = "setThresholds" /\ args = <<65535, 2748, 255>>
    /\ bus[1].data[1] = 15 /\ bus[1].data[3] = 10 /\ bus[1].data[5] = 255

\* C13: enableInterrupt and disableInterrupt change only INT_DATARDY of the
\* measurement-mode mirror and leave DRIVE_MODE and INT_THRESH as they
\* were; setDriveMode(m) changes only DRIVE_MODE and leaves INT_DATARDY and
\* INT_THRESH as they were (in the mirror and in the byte it writes).
C13_FieldIndependence ==
    [][/\ op' \in {"enableInterrupt", "disableInterrupt"}
            => /\ meas_mode'["DRIVE_MODE"] = meas_mode["DRIVE_MODE"]
               /\ meas_mode'["INT_THRESH"] = meas_mode["INT_THRESH"]
               /\ meas_mode'["INT_DATARDY"] =
                      (IF op' = "enableInterrupt" THEN 1 ELSE 0)
               /\ DriveModeBits(lastMeas') = meas_mode["DRIVE_MODE"]
       /\ op' = "setDriveMode"
            => /\ meas_mode'["INT_DATARDY"] = meas_mode["INT_DATARDY"]
               /\ meas_mode'["INT_THRESH"] = meas_mode["INT_THRESH"]
               /\ meas_mode'["DRIVE_MODE"] = args'[1] % 8
               /\ IntDataRdyBits(lastMeas') = meas_mode["INT_DATARDY"]]_vars

C13_Witness ==
    /\ op = "setDriveMode" /\ args[1] = 4
    /\ meas_mode["DRIVE_MODE"] = 4 /\ meas_mode["INT_DATARDY"] = 1
    /\ lastMeas = 72

\* the three layouts as the driver declares them, fields packed from the
\* least significant bit in declaration order: <<name, first bit, width>>
DeclaredFields(reg) ==
    CASE reg = "status" ->
             { <<"ERROR", 0, 1>>, <<"unused", 1, 2>>, <<"DATA_READY", 3, 1>>,
               <<"APP_VALID", 4, 1>>, <<"unused2", 5, 2>>, <<"FW_MODE", 7, 1>> }
      [] reg = "meas_mode" ->
             { <<"unused", 0, 2>>, <<"INT_THRESH", 2, 1>>,
               <<"INT_DATARDY", 3, 1>>, <<"DRIVE_MODE", 4, 3>> }
      [] reg = "error_id" ->
             { <<"WRITE_REG_INVALID", 0, 1>>, <<"READ_REG_INVALID", 1, 1>>,
               <<"MEASMODE_INVALID", 2, 1>>, <<"MAX_RESISTANCE", 3, 1>>,
               <<"HEATER_FAULT", 4, 1>>, <<"HEATER_SUPPLY", 5, 1>> }
DeclaredBits(reg) ==
    CASE reg = "status" -> 8 [] reg = "meas_mode" -> 7 [] reg = "error_id" -> 6
BitsOf(b, first, width) == (b \div (2 ^ first)) % (2 ^ width)

\* C14: for the STATUS, MEAS_MODE and ERROR_ID layouts, after any
\* assignment of integers to fields, decoding the encoded byte gives back
\* every field, and the field last assigned holds its value masked to its
\* width at its bit position; and for every byte the layout covers,
\* encoding the decoded byte gives that byte back.
C14_RoundTrip ==
    phase = "codec" =>
        LET reg == args[1]
            m == Mirror(reg)
            byte == ret.v
        IN  /\ op # "none" =>
                /\ byte = bf_get(LayoutOf(reg), m)
                /\ bf_set(LayoutOf(reg), byte) = m
                /\ DOMAIN m = {f[1] : f \in DeclaredFields(reg)}
                /\ \A f \in DeclaredFields(reg) :
                       m[f[1]] = BitsOf(byte, f[2], f[3])
            /\ op = "assign" =>
                \A f \in DeclaredFields(reg) :
                    f[1] = args[2] =>
                        /\ m[f[1]] = args[3] % (2 ^ f[3])
                        /\ BitsOf(byte, f[2], f[3]) = args[3] % (2 ^ f[3])
            /\ (op = "set" /\ args[2] < 2 ^ DeclaredBits(reg)) => byte = args[2]

C14_Witness ==
    /\ phase = "codec" /\ op = "assign"
    /\ args = <<"meas_mode", "DRIVE_MODE", 0 - 1>>
    /\ meas_mode["DRIVE_MODE"] = 7 /\ meas_mode["INT_DATARDY"] = 1
    /\ ret = ReturnsInt(120)

\* the MEAS_MODE byte that encodes the mirror m
MeasByte(m) ==
    m["unused"] + 4 * m["INT_THRESH"] + 8 * m["INT_DATARDY"] + 16 * m["DRIVE_MODE"]

\* C15: each call of setDriveMode, enableInterrupt and disableInterrupt
\* issues exactly one single-byte write to MEAS_MODE and no read, and the
\* byte is the encoding of the whole mirror after the update; so after a
\* successful construction the byte most recently written to MEAS_MODE is
\* the encoding of the current mirror.
C15_WriteThrough ==
    /\ op \in {"setDriveMode", "enableInterrupt", "disableInterrupt"}
          => bus = <<write8(CCS811_MEAS_MODE, MeasByte(meas_mode))>>
    /\ phase = "ready" => lastMeas = MeasByte(meas_mode)

C15_Witness ==
    /\ op = "disableInterrupt" /\ meas_mode["DRIVE_MODE"] = 5
    /\ bus = <<write8(1, 80)>> /\ lastMeas = 80

\* C16: every call of available, checkError and readData issues exactly
\* one read of STATUS, as its first transaction, and leaves the status
\* mirror holding every field of the byte just read; what the call returns
\* and whether it reads the result block follow from that byte.
C16_FreshStatus ==
    op \in {"available", "checkError", "readData"}
        => /\ ReadsOf(bus, CCS811_STATUS) = {1}
           /\ bus[1] = readU8(CCS811_STATUS, dev.status)
           /\ \A f \in DeclaredFields("status") :
                  status[f[1]] = BitsOf(dev.status, f[2], f[3])
           /\ op = "available"
                  => /\ ret = ReturnsBool(DataReadyBit(dev.status) = 1)
                     /\ Len(bus) = 1
           /\ op = "checkError"
                  => /\ ret = ReturnsInt(ErrorBit(dev.status))
                     /\ Len(bus) = 1
           /\ op = "readData"
                  => /\ (AlgReads(bus) # {}) <=> (DataReadyBit(dev.status) = 1)
                     /\ (ret.kind = "int") <=> (DataReadyBit(dev.status) = 1)
                     /\ (ret.kind = "int" /\ ErrorBit(dev.status) = 0) => ret.v = 0

C16_Witness ==
    /\ op = "readData" /\ dev.status = 129
    /\ ret = ReturnsBool(FALSE)
    /\ status["ERROR"] = 1 /\ status["DATA_READY"] = 0
    /\ lastBuf = <<144, 1, 50, 0, 7, 16, 8, 9>>

\* C17: a caller that tests the result of readData the way the example
\* does, taking a false or zero result as a fresh measurement without
\* error, reports a measurement only for calls that read data: the no-data
\* result does not pass for the zero result.
C17_NoDataDistinct ==
    (op = "readData" /\ ExampleReports(ret)) => AlgReads(bus) # {}

\* C18: for low_med and med_high in 0..4095 the buffer of setThresholds
\* has byte 1 = low_med & 0xFF and byte 3 = med_high & 0xFF, so that
\* (byte0 << 8) | byte1 and (byte2 << 8) | byte3 give the thresholds back.
C18_NaturalEncoding ==
    (op = "setThresholds" /\ args[1] \in 0..4095 /\ args[2] \in 0..4095)
        => /\ bus[1].data[2] = args[1] % 256
           /\ bus[1].data[4] = args[2] % 256
           /\ 256 * bus[1].data[1] + bus[1].data[2] = args[1]
           /\ 256 * bus[1].data[3] + bus[1].data[4] = args[2]

\* C19: every byte written to MEAS_MODE, by the constructor and by any
\* call after it, has bits 0, 1, 2 and 7 clear, with INT_DATARDY at bit 3
\* and DRIVE_MODE (cut to 3 bits) at bits 4..6; INT_THRESH and the unused
\* bits are never set.
C19_MeasModeBits ==
    /\ \A i \in WritesTo(bus, CCS811_MEAS_MODE) :
           /\ Len(bus[i].data) = 1
           /\ bus[i].data[1] \in 0..127
           /\ bus[i].data[1] % 8 = 0
    /\ lastMeas # NoByte
          => /\ meas_mode["INT_THRESH"] = 0 /\ meas_mode["unused"] = 0
             /\ meas_mode["INT_DATARDY"] \in {0, 1}
             /\ meas_mode["DRIVE_MODE"] \in 0..7
             /\ lastMeas = 8 * meas_mode["INT_DATARDY"] + 16 * meas_mode["DRIVE_MODE"]
    /\ op = "setDriveMode" => meas_mode["DRIVE_MODE"] = args[1] % 8

C19_Witness ==
    /\ op = "setDriveMode" /\ args[1] = 0 - 1
    /\ meas_mode["INT_DATARDY"] = 1
    /\ bus = <<write8(1, 120)>>

\* C20: available, checkError, readData and calculateTemperature issue no
\* bus write and change neither the measurement-mode mirror nor the
\* temperature offset; available, checkError and calculateTemperature
\* leave eCO2 and TVOC as they were; SWReset issues exactly one write, of
\* 11 E5 72 8A (hex) to SW_RESET, and changes no attribute of the driver.
C20_Frame ==
    [][/\ op' \in {"available", "checkError", "readData", "calculateTemperature"}
            => /\ \A i \in DOMAIN bus' : IsRead(bus'[i])
               /\ meas_mode' = meas_mode
               /\ tempOffset' = tempOffset
               /\ lastMeas' = lastMeas
       /\ op' \in {"available", "checkError", "calculateTemperature"}
            => /\ eCO2' = eCO2
               /\ TVOC' = TVOC
       /\ op' = "SWReset"
            => /\ bus' = <<writeList(255, <<17, 229, 114, 138>>)>>
               /\ ret' = ReturnsNone
               /\ UNCHANGED <<status, meas_mode, error_id, TVOC, eCO2,
                              tempOffset>>]_vars

C20_Witness ==
    /\ op = "SWReset" /\ Len(bus) = 1
    /\ tempOffset = 512 /\ eCO2 = 400 /\ TVOC = 50
    /\ meas_mode["INT_DATARDY"] = 1 /\ meas_mode["DRIVE_MODE"] = 4
    /\ status["DATA_READY"] = 1

=============================================================================
